---------------------------- MODULE Spec2Model ----------------------------
(***************************************************************************)
(* Character-alignment engine of Stage1.1.1-ODS-Sheet.py:                   *)
(*   find_matching_substring  (the aligner, lines 91-129)                   *)
(*   find_matching_line       (the line selector, lines 65-88)              *)
(*   create_highlighted_text  (the renderer, lines 132-165)                 *)
(*   the per-word loop of create_validation_spreadsheet (lines 194-233)     *)
(*                                                                         *)
(* Python strings are sequences of one-character strings; offsets keep      *)
(* Python's 0-based numbering, so s[i] of the source is s[i+1] here.        *)
(* A float score n/d is kept as the exact pair <<n, d>> with d > 0 and is   *)
(* compared by cross-multiplication (IEEE division of small integers is     *)
(* correctly rounded, so two quotients compare as the rationals do).        *)
(***************************************************************************)
EXTENDS Integers, Sequences, FiniteSets

(***************************************************************************)
(* Bounds of the model: the longest one-line inscription, the longest word, *)
(* the longest raw text of an inscription of several lines (delimiters      *)
(* included), the number of interpretive words the loop processes, the      *)
(* longest line over the letters with irregular case, and the longest raw   *)
(* text the loop is run on.                                                 *)
(***************************************************************************)
MaxLineLen == 4
MaxWordLen == 2
MaxTextLen == 6
MaxWords == 2
MaxCaseLen == 3
MaxLoopTextLen == 5

(***************************************************************************)
(* The alphabet of one-line inscriptions: two letters, one of them in both  *)
(* cases, and one character of epigraphic notation.                         *)
(***************************************************************************)
Letters == {"a", "A", "b"}
Noise == {"["}
Delimiter == "/"
LineChars == Letters \cup Noise

\* the characters of the inscriptions of several lines: one letter, one
\* character of notation, and the delimiter
SheetChars == {"a", "["}
TextChars == SheetChars \cup {Delimiter}

SeqsUpTo(S, n) == UNION {[1..k -> S] : k \in 0..n}

\* one-line inscriptions and the words matched against them
Lines == SeqsUpTo(LineChars, MaxLineLen)
Words == SeqsUpTo(LineChars, MaxWordLen)

\* raw inscription texts of several lines and the words matched against them
Texts == SeqsUpTo(TextChars, MaxTextLen)
SheetWords == SeqsUpTo(SheetChars, MaxWordLen)

\* raw inscription texts the loop over the interpretive words is run on
LoopTexts == SeqsUpTo(TextChars, MaxLoopTextLen)

(***************************************************************************)
(* Python built-ins used by the source.                                     *)
(***************************************************************************)
\* str.lower() of one character (line 107); the capital sigma alone becomes
\* the medial small sigma, and the final small sigma is left as it is
lower(c) ==
  IF c = "A" THEN "a" ELSE IF c = "B" THEN "b" ELSE IF c = "Σ" THEN "σ" ELSE c

\* str.isalpha() of one character: the letters of the alphabets used here;
\* the space, the brackets and the delimiter are not alphabetic
isalpha(c) ==
  c \in {"a", "b", "A", "B", "d", "i", "m", "n", "s", "u", "σ", "ς", "Σ"}

\* str.lower() of a string puts the final small sigma for a capital sigma that
\* follows a letter and is followed by none
final_sigma(s, i) ==
  /\ s[i] = "Σ"
  /\ i > 1 /\ isalpha(s[i - 1])
  /\ i = Len(s) \/ ~isalpha(s[i + 1])

\* str.lower() of a string (line 96)
str_lower(s) ==
  [i \in 1..Len(s) |-> IF final_sigma(s, i) THEN "ς" ELSE lower(s[i])]

\* max(a, b)
max(a, b) == IF a >= b THEN a ELSE b

\* the marker of an IndexError raised by list indexing
IndexError == <<"!IndexError">>

\* lst[i] of a Python list of strings, negative indices included
list_getitem(lst, i) ==
  IF 0 <= i /\ i < Len(lst) THEN lst[i + 1]
  ELSE IF -Len(lst) <= i /\ i < 0 THEN lst[Len(lst) + i + 1]
  ELSE IndexError

\* a slice bound of Python, clamped into 0..n
slice_bound(i, n) ==
  IF i < 0 THEN max(0, n + i) ELSE IF i > n THEN n ELSE i

\* s[lo:hi]
py_slice(s, lo, hi) ==
  SubSeq(s, slice_bound(lo, Len(s)) + 1, slice_bound(hi, Len(s)))

\* text.split('/'): always at least one (possibly empty) line
RECURSIVE split_from(_, _, _, _)
split_from(text, i, cur, acc) ==
  IF i > Len(text) THEN Append(acc, cur)
  ELSE IF text[i] = Delimiter
       THEN split_from(text, i + 1, <<>>, Append(acc, cur))
       ELSE split_from(text, i + 1, Append(cur, text[i]), acc)

split(text) == split_from(text, 1, <<>>, <<>>)

(***************************************************************************)
(* Scores.                                                                  *)
(***************************************************************************)
ZeroScore == <<0, 1>>

\* a > b on scores
score_gt(a, b) == a[1] * b[2] > b[1] * a[2]

\* a >= b on scores
score_ge(a, b) == a[1] * b[2] >= b[1] * a[2]

\* a = b on scores
score_eq(a, b) == a[1] * b[2] = b[1] * a[2]

(***************************************************************************)
(* find_matching_substring(line_text, word), lines 91-129.                  *)
(***************************************************************************)
\* the test of line 113 inverted: letters are skipped, notation stops the walk
skips_letters(char) == isalpha(char)

\* line 113: a character that is skipped when it does not match
skips(char) == ~isalpha(char)

\* the walk leaving the loop on the last match, before line 119 advances end_pos
RECURSIVE walk_inclusive(_, _, _, _, _)
walk_inclusive(line_text, word_lower, end_pos, word_idx, skipped) ==
  IF end_pos < Len(line_text) /\ word_idx < Len(word_lower)
  THEN LET char == lower(line_text[end_pos + 1])
       IN  IF char = word_lower[word_idx + 1]
           THEN IF word_idx + 1 = Len(word_lower)
                THEN [end_pos |-> end_pos, word_idx |-> word_idx + 1,
                      skipped |-> skipped]
                ELSE walk_inclusive(line_text, word_lower, end_pos + 1,
                                    word_idx + 1, skipped)
           ELSE IF ~isalpha(char)
                THEN walk_inclusive(line_text, word_lower, end_pos + 1,
                                    word_idx, skipped + 1)
                ELSE [end_pos |-> end_pos, word_idx |-> word_idx, skipped |-> skipped]
  ELSE [end_pos |-> end_pos, word_idx |-> word_idx, skipped |-> skipped]

\* lines 106-119: the inner while loop from (end_pos, word_idx).  The field
\* skipped counts the passes through the branch of line 114; the source does
\* not keep it, it only records the walk.
RECURSIVE walk(_, _, _, _, _)
walk(line_text, word_lower, end_pos, word_idx, skipped) ==
  IF end_pos < Len(line_text) /\ word_idx < Len(word_lower)
  THEN LET char == lower(line_text[end_pos + 1])
       IN  IF char = word_lower[word_idx + 1]
           THEN walk(line_text, word_lower, end_pos + 1, word_idx + 1, skipped)
           ELSE IF skips(char)
                THEN walk(line_text, word_lower, end_pos + 1, word_idx, skipped + 1)
                ELSE [end_pos |-> end_pos, word_idx |-> word_idx, skipped |-> skipped]
  ELSE [end_pos |-> end_pos, word_idx |-> word_idx, skipped |-> skipped]

\* line 123 with the length of the window for the ratio
window_score_length(word_idx, start_pos, end_pos) ==
  <<max(1, end_pos - start_pos), 1>>

\* line 123: score = word_idx / max(1, end_pos - start_pos)
window_score(word_idx, start_pos, end_pos) ==
  <<word_idx, max(1, end_pos - start_pos)>>

\* line 124 keeping the first window found
window_improves_first(score, best_score) == score_eq(best_score, ZeroScore)

\* line 124 with >= for >
window_improves_ge(score, best_score) == score_ge(score, best_score)

\* line 124: the window replaces the best one
window_improves(score, best_score) == score_gt(score, best_score)

\* lines 103-127: the body of the for loop for one start_pos
try_start(line_text, word_lower, start_pos, best) ==
  LET w == walk(line_text, word_lower, start_pos, 0, 0)
      score == window_score(w.word_idx, start_pos, w.end_pos)
  IN  IF w.word_idx = Len(word_lower) /\ window_improves(score, best.best_score)
      THEN [best_start |-> start_pos, best_end |-> w.end_pos, best_score |-> score]
      ELSE best

\* line 102: for start_pos in range(len(line_text))
RECURSIVE scan_starts(_, _, _, _)
scan_starts(line_text, word_lower, start_pos, best) ==
  IF start_pos >= Len(line_text) THEN best
  ELSE scan_starts(line_text, word_lower, start_pos + 1,
                   try_start(line_text, word_lower, start_pos, best))

\* lines 97-98 with 0 for -1
no_window_zero == [best_start |-> 0, best_end |-> 0, best_score |-> ZeroScore]

\* lines 97-99: the locals before the loop
no_window == [best_start |-> -1, best_end |-> -1, best_score |-> ZeroScore]

\* lines 96-127: the locals best_start, best_end and best_score after the loop
best_window(line_text, word) ==
  scan_starts(line_text, str_lower(word), 0, no_window)

\* lines 96-129
find_matching_substring(line_text, word) ==
  LET best == best_window(line_text, word)
  IN  <<best.best_start, best.best_end>>

(***************************************************************************)
(* find_matching_line(word, inscription_lines), lines 65-88.                *)
(***************************************************************************)
\* line 82 without the subtraction of start
line_score_end(word, start, end) == <<Len(word), max(1, end)>>

\* line 82: score = len(word) / max(1, end - start)
line_score(word, start, end) == <<Len(word), max(1, end - start)>>

\* line 84 with >= for >
line_improves_ge(score, best_score) == score_ge(score, best_score)

\* line 84: the line replaces the best one
line_improves(score, best_score) == score_gt(score, best_score)

\* lines 77-86: the body of the for loop for one line
try_line(word, idx, line, best) ==
  LET se == find_matching_substring(line, word)
      score == line_score(word, se[1], se[2])
  IN  IF se[1] # -1 /\ line_improves(score, best.best_score)
      THEN [best_line_idx |-> idx, best_score |-> score]
      ELSE best

\* line 76: for idx, line in enumerate(inscription_lines)
RECURSIVE scan_lines(_, _, _, _)
scan_lines(word, inscription_lines, idx, best) ==
  IF idx >= Len(inscription_lines) THEN best
  ELSE scan_lines(word, inscription_lines, idx + 1,
                  try_line(word, idx, inscription_lines[idx + 1], best))

\* line 73 with -1 for 0
no_line_last == [best_line_idx |-> -1, best_score |-> ZeroScore]

\* lines 73-74: the locals before the loop
no_line == [best_line_idx |-> 0, best_score |-> ZeroScore]

\* lines 70-86: the locals best_line_idx and best_score when the function returns
\* (the early return of line 71 leaves before they are set: it selects nothing)
selection(word, inscription_lines) ==
  IF word = <<>> \/ inscription_lines = <<>>
  THEN [best_line_idx |-> 0, best_score |-> ZeroScore]
  ELSE scan_lines(word, inscription_lines, 0, no_line)

\* lines 70-88 with the early return of line 71 flagging its result with -1
find_matching_line_flagged(word, inscription_lines) ==
  IF word = <<>> \/ inscription_lines = <<>>
  THEN <<-1, IF inscription_lines # <<>>
             THEN list_getitem(inscription_lines, 0) ELSE <<>> >>
  ELSE LET best == selection(word, inscription_lines)
       IN  <<best.best_line_idx,
             list_getitem(inscription_lines, best.best_line_idx)>>

\* lines 70-88: the returned pair (line index, line text)
find_matching_line(word, inscription_lines) ==
  IF word = <<>> \/ inscription_lines = <<>>
  THEN <<0, IF inscription_lines # <<>>
            THEN list_getitem(inscription_lines, 0) ELSE <<>> >>
  ELSE LET best == selection(word, inscription_lines)
       IN  <<best.best_line_idx,
             IF inscription_lines # <<>>
             THEN list_getitem(inscription_lines, best.best_line_idx)
             ELSE <<>> >>

(***************************************************************************)
(* create_highlighted_text(line_text, word), lines 132-165.  The result is  *)
(* either the plain string (rich = FALSE, in text) or a CellRichText        *)
(* (rich = TRUE) whose blocks are TextBlocks [b |-> bold, text |-> ...].    *)
(***************************************************************************)
plain_text(line_text) == [rich |-> FALSE, text |-> line_text, blocks |-> <<>>]

TextBlock(b, text) == [b |-> b, text |-> text]

\* lines 148-159 with the test of line 151 off by one
result_blocks_late(line_text, start, end) ==
  (IF start > 1
   THEN <<[b |-> FALSE, text |-> py_slice(line_text, 0, start)]>> ELSE <<>>)
  \o <<[b |-> TRUE, text |-> py_slice(line_text, start, end)]>>
  \o (IF end < Len(line_text)
      THEN <<[b |-> FALSE, text |-> py_slice(line_text, end, Len(line_text))]>>
      ELSE <<>>)

\* lines 148-159
result_blocks(line_text, start, end) ==
  (IF start > 0
   THEN <<TextBlock(FALSE, py_slice(line_text, 0, start))>> ELSE <<>>)
  \o <<TextBlock(TRUE, py_slice(line_text, start, end))>>
  \o (IF end < Len(line_text)
      THEN <<TextBlock(FALSE, py_slice(line_text, end, Len(line_text)))>>
      ELSE <<>>)

\* lines 137-165
create_highlighted_text(line_text, word) ==
  IF word = <<>> \/ line_text = <<>> THEN plain_text(line_text)
  ELSE LET se == find_matching_substring(line_text, word)
       IN  IF se[1] = -1 THEN plain_text(line_text)
           ELSE LET blocks == result_blocks(line_text, se[1], se[2])
                IN  IF blocks # <<>>
                    THEN [rich |-> TRUE, text |-> <<>>, blocks |-> blocks]
                    ELSE plain_text(line_text)

(***************************************************************************)
(* State.  One inscription is read (lines 185-194); then either one of the  *)
(* three functions is applied once to arguments drawn from the inscription  *)
(* (Spec, SelectorSpec), or the per-word loop of                            *)
(* create_validation_spreadsheet (lines 221-252) runs over the interpretive *)
(* words (SheetSpec).                                                       *)
(***************************************************************************)
VARIABLES
  inscription_text,   \* line 185: the raw text of the inscription
  inscription_lines,  \* line 194: inscription_text.split('/')
  op,                 \* the operation applied last
  lines,              \* the sequence of lines find_matching_line was given
  word,               \* the word argument
  line_text,          \* the line argument, or the line find_matching_line returned
  span,               \* <<start, end>> returned by find_matching_substring
  line_idx,           \* the index find_matching_line returned
  best_score,         \* the local best_score of find_matching_line at its return
  highlighted_line,   \* what create_highlighted_text returned
  current_line_idx,   \* line 221
  row_idx             \* line 224: the spreadsheet row written last (1: the headers)

vars == <<inscription_text, inscription_lines, op, lines, word, line_text, span,
          line_idx, best_score, highlighted_line, current_line_idx, row_idx>>

NoSpan == <<-1, -1>>

\* line 224: the first data row
FirstRow == 2

\* the state once the inscription inscription_text has been read
Read(text) ==
  /\ inscription_text = text
  /\ inscription_lines = split(text)
  /\ op = "init"
  /\ lines = <<>>
  /\ word = <<>>
  /\ line_text = <<>>
  /\ span = NoSpan
  /\ line_idx = 0
  /\ best_score = ZeroScore
  /\ highlighted_line = plain_text(<<>>)
  /\ current_line_idx = 0
  /\ row_idx = FirstRow - 1

\* find_matching_substring applied to one line of the inscription
Aligner(W) ==
  /\ op = "init"
  /\ \E i \in 1..Len(inscription_lines), w \in W :
       /\ line_text' = inscription_lines[i]
       /\ word' = w
       /\ span' = find_matching_substring(inscription_lines[i], w)
  /\ op' = "find_matching_substring"
  /\ UNCHANGED <<inscription_text, inscription_lines, lines, line_idx, best_score,
                 highlighted_line, current_line_idx, row_idx>>

\* create_highlighted_text applied to one line of the inscription
Renderer(W) ==
  /\ op = "init"
  /\ \E i \in 1..Len(inscription_lines), w \in W :
       /\ line_text' = inscription_lines[i]
       /\ word' = w
       /\ highlighted_line' = create_highlighted_text(inscription_lines[i], w)
  /\ op' = "create_highlighted_text"
  /\ UNCHANGED <<inscription_text, inscription_lines, lines, span, line_idx,
                 best_score, current_line_idx, row_idx>>

\* find_matching_line applied to the lines of the inscription, or to no lines
LineSelector(W) ==
  /\ op = "init"
  /\ \E ls \in {inscription_lines, <<>>}, w \in W :
     \E found \in {find_matching_line(w, ls)} :
       /\ lines' = ls
       /\ word' = w
       /\ line_idx' = found[1]
       /\ line_text' = found[2]
       /\ best_score' = selection(w, ls).best_score
  /\ op' = "find_matching_line"
  /\ UNCHANGED <<inscription_text, inscription_lines, span, highlighted_line,
                 current_line_idx, row_idx>>

\* lines 224-233: one iteration of the loop over interpretive_words, up to the
\* row's cells being ready; split() yields no empty word
ProcessWord ==
  /\ op \in {"init", "written"}
  /\ row_idx < FirstRow - 1 + MaxWords
  /\ \E w \in SheetWords \ {<<>>} :
     \E found \in {find_matching_line(w, inscription_lines)} :
       /\ word' = w
       /\ lines' = inscription_lines
       /\ line_idx' = found[1]
       /\ line_text' = found[2]
       /\ best_score' = selection(w, inscription_lines).best_score
       /\ current_line_idx' = IF found[1] >= current_line_idx
                              THEN found[1] ELSE current_line_idx
       /\ highlighted_line' = create_highlighted_text(found[2], w)
  /\ row_idx' = row_idx + 1
  /\ op' = "row"
  /\ UNCHANGED <<inscription_text, inscription_lines, span>>

\* lines 235-252: the row is written to the sheet (which is not modelled).  No
\* local of the loop is assigned: word, line_text, line_idx and highlighted_line
\* keep the row's values until lines 224-233 rebind them.  Only the locals of
\* find_matching_line, whose call has returned, are gone.
WriteRow ==
  /\ op = "row"
  /\ op' = "written"
  /\ lines' = <<>>
  /\ best_score' = ZeroScore
  /\ UNCHANGED <<inscription_text, inscription_lines, word, line_text, span,
                 line_idx, highlighted_line, current_line_idx, row_idx>>

(***************************************************************************)
(* Spec: the aligner and the renderer on a one-line inscription.            *)
(***************************************************************************)
Init == \E text \in Lines : Read(text)

Next == Aligner(Words) \/ Renderer(Words)

Spec == Init /\ [][Next]_vars

(***************************************************************************)
(* SelectorSpec: the three functions on an inscription of several lines.    *)
(***************************************************************************)
SheetInit == \E text \in Texts : Read(text)

SelectorNext ==
  \/ Aligner(SheetWords)
  \/ Renderer(SheetWords)
  \/ LineSelector(SheetWords)

SelectorSpec == SheetInit /\ [][SelectorNext]_vars

(***************************************************************************)
(* SheetSpec: the loop of create_validation_spreadsheet over the words of   *)
(* an inscription of several lines.                                         *)
(***************************************************************************)
LoopInit == \E text \in LoopTexts : Read(text)

SheetNext == ProcessWord \/ WriteRow

SheetSpec == LoopInit /\ [][SheetNext]_vars

(***************************************************************************)
(* ScenarioSpec: the aligner on the line "dis manib[us]" and its parts,     *)
(* against the word "manibus" and its parts.                                *)
(***************************************************************************)
ScenarioLine == <<"d", "i", "s", " ", "m", "a", "n", "i", "b", "[", "u", "s", "]">>
ScenarioWord == <<"m", "a", "n", "i", "b", "u", "s">>

\* the contiguous parts of a string, the empty one included
Parts(s) == {SubSeq(s, i, j) : i \in 1..(Len(s) + 1), j \in 0..Len(s)}

ScenarioLines == Parts(ScenarioLine)
ScenarioWords == Parts(ScenarioWord)

ScenarioInit == \E text \in ScenarioLines : Read(text)

ScenarioNext == Aligner(ScenarioWords)

ScenarioSpec == ScenarioInit /\ [][ScenarioNext]_vars

(***************************************************************************)
(* CaseSpec: the aligner on lines and words over a letter with one          *)
(* lower-case form and a letter with two, the Greek sigma.                  *)
(***************************************************************************)
CaseChars == {"a", "σ", "ς", "Σ"}

CaseLines == SeqsUpTo(CaseChars, MaxCaseLen)
CaseWords == SeqsUpTo(CaseChars, MaxWordLen)

CaseInit == \E text \in CaseLines : Read(text)

CaseNext == Aligner(CaseWords)

CaseSpec == CaseInit /\ [][CaseNext]_vars

(***************************************************************************)
(* Notions the properties are stated in.                                    *)
(***************************************************************************)
\* u occurs in v as an in-order subsequence, from position i of u and j of v
RECURSIVE subsequence_from(_, _, _, _)
subsequence_from(u, v, i, j) ==
  IF i > Len(u) THEN TRUE
  ELSE IF j > Len(v) THEN FALSE
  ELSE IF u[i] = v[j] THEN subsequence_from(u, v, i + 1, j + 1)
  ELSE subsequence_from(u, v, i, j + 1)

IsSubsequence(u, v) == subsequence_from(u, v, 1, 1)

\* the folded word occurs in the line with nothing but non-alphabetic
\* characters between its characters
OccursThroughNotation(line, w) ==
  \E f \in [1..Len(w) -> 1..Len(line)] :
    /\ \A i, j \in 1..Len(w) : i < j => f[i] < f[j]
    /\ \A i \in 1..Len(w) : lower(line[f[i]]) = str_lower(w)[i]
    /\ \A q \in 1..Len(line) :
         (f[1] < q /\ q < f[Len(w)] /\ (\A i \in 1..Len(w) : f[i] # q))
           => ~isalpha(lower(line[q]))

\* the start offsets whose walk consumes the whole word
SuccessfulStarts(line, w) ==
  {s \in 0..(Len(line) - 1) :
     walk(line, str_lower(w), s, 0, 0).word_idx = Len(w)}

\* the window the walk from start offset s ends with
WindowEnd(line, w, s) == walk(line, str_lower(w), s, 0, 0).end_pos

\* the characters the walk from start offset s passed over as notation
WindowSkipped(line, w, s) == walk(line, str_lower(w), s, 0, 0).skipped

\* the texts of a sequence of blocks, joined
RECURSIVE JoinTexts(_)
JoinTexts(blocks) ==
  IF blocks = <<>> THEN <<>> ELSE Head(blocks).text \o JoinTexts(Tail(blocks))

\* the text a result of create_highlighted_text shows
Shown(h) == IF h.rich THEN JoinTexts(h.blocks) ELSE h.text

\* the offsets at which the whole word occurs in the line contiguously, each
\* character of the line lower-cased and the word lower-cased
Occurrences(line, w) ==
  {p \in 0..(Len(line) - Len(w)) :
     \A i \in 1..Len(w) : lower(line[p + i]) = str_lower(w)[i]}

\* the other-case form of a letter (str.swapcase() of one character); other
\* characters have none
OtherCase(c) ==
  IF c = "a" THEN "A" ELSE IF c = "A" THEN "a"
  ELSE IF c = "b" THEN "B" ELSE IF c = "B" THEN "b"
  ELSE IF c = "σ" THEN "Σ" ELSE IF c = "ς" THEN "Σ"
  ELSE IF c = "Σ" THEN "σ" ELSE c

\* the string s with its character at position i in its other case
SwapCaseAt(s, i) == [s EXCEPT ![i] = OtherCase(s[i])]

Aligned == op = "find_matching_substring"
Rendered == op = "create_highlighted_text"

(***************************************************************************)
(* C1 as stated: when find_matching_substring returns (-1, -1) for a        *)
(* non-empty word, the folded word is not an in-order subsequence of the    *)
(* folded line.  The code violates it: a letter between two characters of   *)
(* the word stops the walk ("aba", "aa").                                   *)
(***************************************************************************)
C1_SentinelMeansNoSubsequence ==
  (Aligned /\ word # <<>> /\ span = NoSpan)
    => ~IsSubsequence(str_lower(word), str_lower(line_text))

\* C1 amended: when find_matching_substring returns (-1, -1) for a non-empty
\* word, the folded word does not occur in the line with only non-alphabetic
\* characters between its characters.
C1_SentinelMeansNoOccurrence ==
  (Aligned /\ word # <<>> /\ span = NoSpan)
    => ~OccursThroughNotation(line_text, word)

\* the sentinel is returned although the word is a subsequence of the line
C1_Witness ==
  /\ Aligned /\ word # <<>> /\ span = NoSpan
  /\ IsSubsequence(str_lower(word), str_lower(line_text))

\* C2: find_matching_substring returns (-1, -1) or offsets with
\* 0 <= start < end <= len(line).
C2_SpanInRange ==
  Aligned =>
    \/ span = NoSpan
    \/ 0 <= span[1] /\ span[1] < span[2] /\ span[2] <= Len(line_text)

\* a window that starts after offset 0 and ends at the end of the line
C2_Witness ==
  /\ Aligned /\ span # NoSpan
  /\ span[1] > 0 /\ span[2] = Len(line_text)

\* C3: for a returned window, 1 <= len(word) <= end - start (the score
\* len(word)/(end - start) lies in (0, 1]), and the score is 1 exactly when the
\* walk that produced the window skipped no character.
C3_ScoreBound ==
  (Aligned /\ span # NoSpan) =>
    /\ 1 <= Len(word)
    /\ Len(word) <= span[2] - span[1]
    /\ (Len(word) = span[2] - span[1])
         <=> (WindowSkipped(line_text, word, span[1]) = 0)

\* a returned window with a skipped character, of score below 1
C3_Witness ==
  /\ Aligned /\ span # NoSpan
  /\ WindowSkipped(line_text, word, span[1]) > 0
  /\ Len(word) < span[2] - span[1]

(***************************************************************************)
(* C4 as stated: find_matching_substring returns a window iff some start    *)
(* offset yields a full walk of the word; the window is then one of the     *)
(* successful windows, no successful window has a greater score, and no     *)
(* successful window of the same score starts further left.  The code       *)
(* violates it for the empty word on a non-empty line: the test of line 122 *)
(* holds at every start offset, the score 0 is never > 0 at line 124, and   *)
(* the sentinel is returned.                                                *)
(***************************************************************************)
C4_BestLeftmostWindowOfAnyWord ==
  Aligned =>
    LET S == SuccessfulStarts(line_text, word)
        sc(s) == <<Len(word), WindowEnd(line_text, word, s) - s>>
    IN  /\ (span # NoSpan) <=> (S # {})
        /\ span # NoSpan =>
             /\ span[1] \in S
             /\ span[2] = WindowEnd(line_text, word, span[1])
             /\ \A t \in S : score_ge(sc(span[1]), sc(t))
             /\ \A t \in S : score_eq(sc(span[1]), sc(t)) => span[1] <= t

\* C4 amended: find_matching_substring returns a window iff the word is not
\* empty and some start offset yields a full walk of it; the window is then
\* one of the successful windows, no successful window has a greater score,
\* and no successful window of the same score starts further left.
C4_BestLeftmostWindow ==
  Aligned =>
    LET S == SuccessfulStarts(line_text, word)
        sc(s) == <<Len(word), WindowEnd(line_text, word, s) - s>>
    IN  /\ (span # NoSpan) <=> (word # <<>> /\ S # {})
        /\ span # NoSpan =>
             /\ span[1] \in S
             /\ span[2] = WindowEnd(line_text, word, span[1])
             /\ \A t \in S : score_ge(sc(span[1]), sc(t))
             /\ \A t \in S : score_eq(sc(span[1]), sc(t)) => span[1] <= t

\* several successful windows: a looser one further left is passed over, and
\* one of the best score further right is not taken
C4_Witness ==
  /\ Aligned /\ word # <<>> /\ span # NoSpan
  /\ \E t \in SuccessfulStarts(line_text, word) :
       t < span[1] /\ WindowEnd(line_text, word, t) - t > span[2] - span[1]
  /\ \E t \in SuccessfulStarts(line_text, word) :
       t > span[1] /\ WindowEnd(line_text, word, t) - t = span[2] - span[1]

\* C5: create_highlighted_text returns the line unchanged when the word or the
\* line is empty or no span matches, and otherwise the non-empty members of
\* [line[:start] plain, line[start:end] bold, line[end:] plain]; either way the
\* texts joined are the line.
C5_Reconstruction ==
  Rendered =>
    LET se == find_matching_substring(line_text, word)
        n == Len(line_text)
        three == << [b |-> FALSE, text |-> SubSeq(line_text, 1, se[1])],
                    [b |-> TRUE, text |-> SubSeq(line_text, se[1] + 1, se[2])],
                    [b |-> FALSE, text |-> SubSeq(line_text, se[2] + 1, n)] >>
        keep(blk) == blk.text # <<>>
    IN  /\ IF word = <<>> \/ line_text = <<>> \/ se = NoSpan
           THEN highlighted_line = [rich |-> FALSE, text |-> line_text,
                                    blocks |-> <<>>]
           ELSE /\ highlighted_line.rich
                /\ highlighted_line.blocks = SelectSeq(three, keep)
                /\ Len(highlighted_line.blocks) <= 3
                /\ Cardinality({i \in 1..Len(highlighted_line.blocks) :
                                  highlighted_line.blocks[i].b}) = 1
                /\ \A i \in 1..Len(highlighted_line.blocks) :
                     highlighted_line.blocks[i].text # <<>>
        /\ Shown(highlighted_line) = line_text

\* a line rendered in three segments
C5_Witness ==
  /\ Rendered /\ highlighted_line.rich
  /\ Len(highlighted_line.blocks) = 3
  /\ Shown(highlighted_line) = line_text

Selected == op \in {"find_matching_line", "row"}

\* the lines (numbered from 1) in which find_matching_substring finds the word
MatchingLines(ls, w) ==
  {j \in 1..Len(ls) : find_matching_substring(ls[j], w) # NoSpan}

\* len(word) / (end - start) of the span found in line j
SpanScore(ls, w, j) ==
  <<Len(w), find_matching_substring(ls[j], w)[2]
              - find_matching_substring(ls[j], w)[1]>>

\* what find_matching_line returns for no lines at all
EmptyResult == <<0, <<>> >>

\* C6: for non-empty lines and a non-empty word that matches some line,
\* find_matching_line returns the index of a matching line of the greatest
\* score len(word)/(end - start), the lowest such index, and that line's text.
C6_BestLowestLine ==
  (Selected /\ lines # <<>> /\ word # <<>> /\ MatchingLines(lines, word) # {}) =>
    LET M == MatchingLines(lines, word)
        i == line_idx + 1
    IN  /\ i \in M
        /\ \A j \in M : score_ge(SpanScore(lines, word, i), SpanScore(lines, word, j))
        /\ \A j \in M : score_eq(SpanScore(lines, word, i), SpanScore(lines, word, j))
                          => i <= j
        /\ line_text = lines[i]

\* a later line wins over an earlier matching line of lower score
C6_Witness ==
  /\ Selected /\ lines # <<>> /\ word # <<>>
  /\ \E j \in MatchingLines(lines, word) :
       /\ j < line_idx + 1
       /\ ~score_ge(SpanScore(lines, word, j), SpanScore(lines, word, line_idx + 1))

\* C7: for non-empty lines none of which matches the word, find_matching_line
\* returns index 0 with lines[0], and create_highlighted_text of that line and
\* the word is lines[0] with nothing emphasized.
C7_NoMatchFirstLine ==
  (Selected /\ lines # <<>> /\ MatchingLines(lines, word) = {}) =>
    /\ line_idx = 0
    /\ line_text = lines[1]
    /\ create_highlighted_text(line_text, word)
         = [rich |-> FALSE, text |-> lines[1], blocks |-> <<>>]
    /\ op = "row" =>
         highlighted_line = [rich |-> FALSE, text |-> lines[1], blocks |-> <<>>]

\* a non-empty word no line matches, with several lines to choose from and a
\* first line that differs from the last
C7_Witness ==
  /\ Selected /\ Len(lines) > 1 /\ lines[1] # lines[Len(lines)]
  /\ word # <<>> /\ MatchingLines(lines, word) = {}
  /\ line_idx = 0 /\ line_text = lines[1]
  /\ ~create_highlighted_text(line_text, word).rich

(***************************************************************************)
(* C8 as stated: the value find_matching_line returns for no lines differs  *)
(* from every value it returns for non-empty lines none of which matches.   *)
(* The code violates it: both are (0, "") when the first line is empty.     *)
(***************************************************************************)
C8_EmptyResultDistinct ==
  (op = "find_matching_line" /\ lines # <<>> /\ MatchingLines(lines, word) = {})
    => \A w \in SheetWords : <<line_idx, line_text>> # find_matching_line(w, <<>>)

\* C8 amended: for no lines find_matching_line returns (0, ""); for non-empty
\* lines none of which matches, what it returns differs from (0, "") exactly
\* when the first line is not empty.
C8_EmptyResultDistinctIffFirstLineNonEmpty ==
  /\ (op = "find_matching_line" /\ lines = <<>>)
       => <<line_idx, line_text>> = EmptyResult
  /\ (op = "find_matching_line" /\ lines # <<>> /\ MatchingLines(lines, word) = {})
       => ((<<line_idx, line_text>> # EmptyResult) <=> (lines[1] # <<>>))

\* no line matches, the first line is empty and the result is that of no lines
C8_Witness ==
  /\ op = "find_matching_line" /\ lines # <<>> /\ word # <<>>
  /\ MatchingLines(lines, word) = {}
  /\ lines[1] = <<>>
  /\ <<line_idx, line_text>> = EmptyResult

\* C9: for an empty word or an empty line, find_matching_substring returns
\* (-1, -1) and create_highlighted_text returns the line as it is; for an empty
\* word, or when the line it returns is empty, find_matching_line has selected
\* no span (index 0, score 0, the first line or "" for no lines); no list index
\* is out of range.
C9_EmptyInputs ==
  /\ (Aligned /\ (word = <<>> \/ line_text = <<>>)) => span = NoSpan
  /\ (Rendered /\ (word = <<>> \/ line_text = <<>>))
       => highlighted_line = [rich |-> FALSE, text |-> line_text, blocks |-> <<>>]
  /\ (op = "find_matching_line" /\ (word = <<>> \/ line_text = <<>>)) =>
       /\ line_idx = 0
       /\ best_score = ZeroScore
       /\ line_text = IF lines = <<>> THEN <<>> ELSE lines[1]
  /\ op = "find_matching_line" => line_text # IndexError

\* the empty word against lines the first of which is not empty
C9_Witness ==
  /\ op = "find_matching_line" /\ word = <<>>
  /\ Len(lines) > 1 /\ lines[1] # <<>>
  /\ line_idx = 0 /\ line_text = lines[1]

C11_WindowWithClosingBracket ==
  (Aligned /\ line_text = ScenarioLine /\ word = ScenarioWord) =>
    /\ span[2] - span[1] = 9
    /\ py_slice(line_text, span[1], span[2])
         = <<"m", "a", "n", "i", "b", "[", "u", "s", "]">>
    /\ score_eq(best_window(line_text, word).best_score, <<7, 9>>)

\* C11 amended: for the line "dis manib[us]" and the word "manibus",
\* find_matching_substring returns (4, 12), the window of 8 characters
\* "manib[us" that ends before the closing bracket, of score 7/8.
C11_WindowBeforeClosingBracket ==
  (Aligned /\ line_text = ScenarioLine /\ word = ScenarioWord) =>
    /\ span = <<4, 12>>
    /\ py_slice(line_text, span[1], span[2])
         = <<"m", "a", "n", "i", "b", "[", "u", "s">>
    /\ score_eq(best_window(line_text, word).best_score, <<7, 8>>)

\* the aligner has run on "dis manib[us]" and "manibus" and found a window
\* that passes over the opening bracket
C11_Witness ==
  /\ Aligned /\ line_text = ScenarioLine /\ word = ScenarioWord
  /\ span # NoSpan
  /\ WindowSkipped(line_text, word, span[1]) = 1

(***************************************************************************)
(* C12 as stated: when the word occurs in the line contiguously (case       *)
(* folded), find_matching_substring returns the leftmost such occurrence:   *)
(* start is the smallest offset of an occurrence, end = start + len(word),  *)
(* the score is 1 and the window passes over no character.  The code        *)
(* violates it for the empty word, which occurs at every offset and for     *)
(* which the sentinel is returned.                                          *)
(***************************************************************************)
C12_LeftmostLiteralOccurrenceOfAnyWord ==
  (Aligned /\ Occurrences(line_text, word) # {}) =>
    /\ span[1] \in Occurrences(line_text, word)
    /\ \A p \in Occurrences(line_text, word) : span[1] <= p
    /\ span[2] = span[1] + Len(word)
    /\ score_eq(best_window(line_text, word).best_score, <<1, 1>>)
    /\ WindowSkipped(line_text, word, span[1]) = 0

\* C12 amended: when a non-empty word occurs in the line contiguously (case
\* folded), find_matching_substring returns the leftmost such occurrence:
\* start is the smallest offset of an occurrence, end = start + len(word), the
\* score is 1 and the window passes over no character; for the empty word it
\* returns (-1, -1).
C12_LeftmostLiteralOccurrence ==
  (Aligned /\ Occurrences(line_text, word) # {}) =>
    IF word = <<>> THEN span = NoSpan
    ELSE /\ span[1] \in Occurrences(line_text, word)
         /\ \A p \in Occurrences(line_text, word) : span[1] <= p
         /\ span[2] = span[1] + Len(word)
         /\ score_eq(best_window(line_text, word).best_score, <<1, 1>>)
         /\ WindowSkipped(line_text, word, span[1]) = 0

\* the word occurs contiguously more than once, and a longer window that
\* passes over notation starts left of the first occurrence
C12_Witness ==
  /\ Aligned /\ word # <<>>
  /\ Cardinality(Occurrences(line_text, word)) >= 2
  /\ \E s \in SuccessfulStarts(line_text, word) :
       /\ s < span[1]
       /\ WindowSkipped(line_text, word, s) > 0

(***************************************************************************)
(* C13 as stated: the result of find_matching_substring is unchanged when   *)
(* any one character of the line or of the word is replaced by its          *)
(* other-case form, and its offsets are offsets of the line as given: the   *)
(* window of the line, folded, holds the folded word in order.  The code    *)
(* violates it: line 107 folds the line one character at a time and line 96 *)
(* folds the word as a whole, and str.lower() does not bring the two case   *)
(* forms of every letter together: the line "ς" matches the word "ς", the   *)
(* line "Σ" does not.                                                       *)
(***************************************************************************)
C13_CaseInsensitive ==
  Aligned =>
    /\ \A i \in 1..Len(line_text) :
         find_matching_substring(SwapCaseAt(line_text, i), word) = span
    /\ \A j \in 1..Len(word) :
         find_matching_substring(line_text, SwapCaseAt(word, j)) = span
    /\ span # NoSpan =>
         /\ 0 <= span[1] /\ span[2] <= Len(line_text)
         /\ IsSubsequence(str_lower(word),
                          str_lower(py_slice(line_text, span[1], span[2])))

\* C15: when find_matching_substring returns a span for a non-empty word,
\* the first character of the window, lower-cased, is the first character of
\* the lower-cased word and the last character of the window, lower-cased, is
\* its last character: the span neither begins nor ends with a character the
\* walk passed over.
C15_WindowEndsOnWordCharacters ==
  (Aligned /\ word # <<>> /\ span # NoSpan) =>
    /\ lower(line_text[span[1] + 1]) = str_lower(word)[1]
    /\ lower(line_text[span[2]]) = str_lower(word)[Len(word)]

\* a window that begins with a character the walk passes over was found and
\* given up for one that starts further right, and notation follows the span
C15_Witness ==
  /\ Aligned /\ word # <<>> /\ span # NoSpan
  /\ \E s \in SuccessfulStarts(line_text, word) :
       /\ s < span[1]
       /\ skips(lower(line_text[s + 1]))
       /\ lower(line_text[s + 1]) # str_lower(word)[1]
  /\ span[2] < Len(line_text)
  /\ skips(lower(line_text[span[2] + 1]))

==========================================================================
